---- MODULE Spec2Model ----
(***************************************************************************)
(* Gravitational and magnetic fields of right-rectangular prisms           *)
(* (gravmag/models/rectangular_prism.py and rectangular_prism_numba.py).   *)
(*                                                                         *)
(* Values are exact: coordinates are integers, and a field value is a      *)
(* formal linear combination of transcendental atoms                       *)
(*     <<"log", a, n>>        = log(a + sqrt(n))                           *)
(*     <<"atan2", num, d, n>> = atan2(num, d * sqrt(n))                    *)
(*     <<"nan">>              = a non-finite value (NaN or +-Inf)          *)
(* with integer coefficients counted in halves (the kernels use 0.5).      *)
(* Equal terms denote equal reals; floating-point round-off is not         *)
(* modelled.  A term is a function from the atoms with non-zero            *)
(* coefficient to these coefficients.                                      *)
(***************************************************************************)
EXTENDS Integers, Sequences, FiniteSets, TLC

\* ------------------------------------------------------------------ bounds
MaxCoord == 1
MaxD == 2
MaxP == 2
MaxSigma == 1
MaxRel == 2
MaxCut == 2

\* ------------------------------------------------------------- term algebra
Zero == [a \in {} |-> 0]

NaN == [a \in {<<"nan">>} |-> 1]

IsFinite(t) == <<"nan">> \notin DOMAIN t

Atom(a) == [x \in {a} |-> 2]

Coef(t, a) == IF a \in DOMAIN t THEN t[a] ELSE 0

Add(s, t) ==
    IF ~IsFinite(s) \/ ~IsFinite(t) THEN NaN
    ELSE LET U == DOMAIN s \cup DOMAIN t
             K == {a \in U : Coef(s, a) + Coef(t, a) # 0}
         IN  [a \in K |-> Coef(s, a) + Coef(t, a)]

\* c * t for an integer c; 0 * NaN is NaN, as in IEEE arithmetic
Scale(c, t) ==
    IF ~IsFinite(t) THEN NaN
    ELSE IF c = 0 THEN Zero
    ELSE [a \in DOMAIN t |-> c * t[a]]

Neg(t) == Scale(-1, t)

Sub(s, t) == Add(s, Neg(t))

\* t / 2 for a term whose coefficients are all even (0.5 * t)
Halve(t) ==
    IF ~IsFinite(t) THEN NaN
    ELSE [a \in DOMAIN t |-> t[a] \div 2]

\* --------------------------------------------------- transcendental functions
\* np.log(a + sqrt(n)): -Inf or NaN when the argument is not positive
RawLog(a, n) ==
    IF a <= 0 /\ n <= a * a THEN NaN ELSE Atom(<<"log", a, n>>)

\* utils.safe_log(a + sqrt(n)): 0 when the argument is not positive
safe_log(a, n) ==
    IF a <= 0 /\ n <= a * a THEN Zero ELSE Atom(<<"log", a, n>>)

\* utils.safe_atan2(num, d * sqrt(n)): 0 when the denominator is 0
safe_atan2(num, d, n) ==
    IF d = 0 \/ n = 0 THEN Zero ELSE Atom(<<"atan2", num, d, n>>)

\* R ** 2 for relative coordinates X, Y, Z
RSq(X, Y, Z) == X * X + Y * Y + Z * Z

\* ---------------------------------------------- kernels, rectangular_prism.py
\* kernel(X, Y, Z, R) with R given as n = R ** 2
kernel_potential_grav(X, Y, Z, n) ==
    Sub(Sub(Sub(Add(Add(Scale(X * Y, safe_log(Z, n)),
                        Scale(X * Z, safe_log(Y, n))),
                    Scale(Y * Z, safe_log(X, n))),
                Halve(Scale(Y * Y, safe_atan2(Z * X, Y, n)))),
            Halve(Scale(X * X, safe_atan2(Z * Y, X, n)))),
        Halve(Scale(Z * Z, safe_atan2(Y * X, Z, n))))

kernel_x(X, Y, Z, n) ==
    Neg(Sub(Add(Scale(Y, safe_log(Z, n)), Scale(Z, safe_log(Y, n))),
            Scale(X, safe_atan2(Y * Z, X, n))))

kernel_y(X, Y, Z, n) ==
    Neg(Sub(Add(Scale(X, safe_log(Z, n)), Scale(Z, safe_log(X, n))),
            Scale(Y, safe_atan2(X * Z, Y, n))))

kernel_z(X, Y, Z, n) ==
    Neg(Sub(Add(Scale(Y, safe_log(X, n)), Scale(X, safe_log(Y, n))),
            Scale(Z, safe_atan2(Y * X, Z, n))))

kernel_xx(X, Y, Z, n) ==
    Neg(safe_atan2(Y * Z, X, n))

\* Fault seeded to test C9: np.log in place of utils.safe_log
kernel_xy_plain_log(X, Y, Z, n) ==
    RawLog(Z, n)

kernel_xy(X, Y, Z, n) ==
    safe_log(Z, n)

kernel_xz(X, Y, Z, n) ==
    safe_log(Y, n)

kernel_yy(X, Y, Z, n) ==
    Neg(safe_atan2(X * Z, Y, n))

kernel_yz(X, Y, Z, n) ==
    safe_log(X, n)

kernel_zz(X, Y, Z, n) ==
    Neg(safe_atan2(Y * X, Z, n))

\* ---------------------------------------- kernels, rectangular_prism_numba.py
\* kernel(X, Y, Z) computes R = sqrt(X**2 + Y**2 + Z**2) itself
kernel_inverse_r(X, Y, Z) ==
    LET n == RSq(X, Y, Z)
    IN
    Sub(Sub(Sub(Add(Add(Scale(Y * X, safe_log(Z, n)),
                        Scale(X * Z, safe_log(Y, n))),
                    Scale(Y * Z, safe_log(X, n))),
                Halve(Scale(Y * Y, safe_atan2(Z * X, Y, n)))),
            Halve(Scale(X * X, safe_atan2(Z * Y, X, n)))),
        Halve(Scale(Z * Z, safe_atan2(Y * X, Z, n))))

kernel_dz(X, Y, Z) ==
    LET n == RSq(X, Y, Z)
    IN  Neg(Sub(Add(Scale(Y, safe_log(X, n)), Scale(X, safe_log(Y, n))),
        Scale(Z, safe_atan2(Y * X, Z, n))))

kernel_dy(X, Y, Z) ==
    LET n == RSq(X, Y, Z)
    IN  Neg(Sub(Add(Scale(X, safe_log(Z, n)), Scale(Z, safe_log(X, n))),
        Scale(Y, safe_atan2(X * Z, Y, n))))

kernel_dx(X, Y, Z) ==
    LET n == RSq(X, Y, Z)
    IN  Neg(Sub(Add(Scale(Y, safe_log(Z, n)), Scale(Z, safe_log(Y, n))),
        Scale(X, safe_atan2(Y * Z, X, n))))

kernel_dzz(X, Y, Z) ==
    LET n == RSq(X, Y, Z)
    IN  Neg(safe_atan2(Y * X, Z, n))

\* Fault seeded to test C4: Y in place of X
kernel_dyz_with_Y(X, Y, Z) ==
    LET n == RSq(X, Y, Z)
    IN  safe_log(Y, n)

kernel_dyz(X, Y, Z) ==
    LET n == RSq(X, Y, Z)
    IN  safe_log(X, n)

kernel_dxz(X, Y, Z) ==
    LET n == RSq(X, Y, Z)
    IN  safe_log(Y, n)

kernel_dyy(X, Y, Z) ==
    LET n == RSq(X, Y, Z)
    IN  Neg(safe_atan2(X * Z, Y, n))

kernel_dxy(X, Y, Z) ==
    LET n == RSq(X, Y, Z)
    IN  safe_log(Z, n)

kernel_dxx(X, Y, Z) ==
    LET n == RSq(X, Y, Z)
    IN  Neg(safe_atan2(Y * Z, X, n))

\* ------------------------------------------------------- calling a kernel
\* The kernels are passed around as function objects; here by their names.
\* kernel(X, Y, Z, R) of rectangular_prism.py
CallKernel(kernel, X, Y, Z, n) ==
    CASE kernel = "kernel_potential_grav" -> kernel_potential_grav(X, Y, Z, n)
      [] kernel = "kernel_x" -> kernel_x(X, Y, Z, n)
      [] kernel = "kernel_y" -> kernel_y(X, Y, Z, n)
      [] kernel = "kernel_z" -> kernel_z(X, Y, Z, n)
      [] kernel = "kernel_xx" -> kernel_xx(X, Y, Z, n)
      [] kernel = "kernel_xy" -> kernel_xy(X, Y, Z, n)
      [] kernel = "kernel_xz" -> kernel_xz(X, Y, Z, n)
      [] kernel = "kernel_yy" -> kernel_yy(X, Y, Z, n)
      [] kernel = "kernel_yz" -> kernel_yz(X, Y, Z, n)
      [] kernel = "kernel_zz" -> kernel_zz(X, Y, Z, n)

\* field(X, Y, Z) of rectangular_prism_numba.py
CallField(field, X, Y, Z) ==
    CASE field = "kernel_inverse_r" -> kernel_inverse_r(X, Y, Z)
      [] field = "kernel_dx" -> kernel_dx(X, Y, Z)
      [] field = "kernel_dy" -> kernel_dy(X, Y, Z)
      [] field = "kernel_dz" -> kernel_dz(X, Y, Z)
      [] field = "kernel_dxx" -> kernel_dxx(X, Y, Z)
      [] field = "kernel_dxy" -> kernel_dxy(X, Y, Z)
      [] field = "kernel_dxz" -> kernel_dxz(X, Y, Z)
      [] field = "kernel_dyy" -> kernel_dyy(X, Y, Z)
      [] field = "kernel_dyz" -> kernel_dyz(X, Y, Z)
      [] field = "kernel_dzz" -> kernel_dzz(X, Y, Z)

\* ------------------------------------------------------------------ inputs
\* coordinates: the keys 'x', 'y', 'z', each a 1d array (a sequence);
\* prisms: the keys 'x1', 'x2', 'y1', 'y2', 'z1', 'z2', each a 1d array.
\* rectangular_prism_numba.py indexes the same data as coordinates[0..2, l]
\* and prisms[p, 0..5].
Size(a) == Len(a)

\* Fault seeded to test C13: the sign taken from e // 2
PowMinusOneOfHalf(e) == IF (e \div 2) % 2 = 0 THEN 1 ELSE -1

\* (-1) ** e for e >= 0
PowMinusOne(e) == IF e % 2 = 0 THEN 1 ELSE -1

\* idist.sedm(data_points, source_points): the squared Euclidean distance
\* between data point l and source point p
sedm(data_points, source_points, l, p) ==
    RSq(data_points.x[l] - source_points.x[p],
        data_points.y[l] - source_points.y[p],
        data_points.z[l] - source_points.z[p])

\* ---------------------------------- rectangular_prism.py: iterate_over_vertices
\* The vertices in the order of the loops for i, for j, for k
VertexOrder ==
    << <<1, 1, 1>>, <<1, 1, 2>>, <<1, 2, 1>>, <<1, 2, 2>>,
       <<2, 1, 1>>, <<2, 1, 2>>, <<2, 2, 1>>, <<2, 2, 2>> >>

VertexKey(axis, i) ==
    CASE axis = "x" -> (IF i = 1 THEN "x1" ELSE "x2")
      [] axis = "y" -> (IF i = 1 THEN "y1" ELSE "y2")
      [] axis = "z" -> (IF i = 1 THEN "z1" ELSE "z2")

\* Fault seeded to test C8: sign = (-1) ** (i + j), k forgotten
VertexStepSignWithoutK(predicted_field, coordinates, prisms, kernel, ijk) ==
    LET sign == PowMinusOne(ijk[1] + ijk[2])
        vertex == [x |-> prisms[VertexKey("x", ijk[1])],
                   y |-> prisms[VertexKey("y", ijk[2])],
                   z |-> prisms[VertexKey("z", ijk[3])]]
        X(l, p) == (0 - coordinates.x[l]) + vertex.x[p]
        Y(l, p) == (0 - coordinates.y[l]) + vertex.y[p]
        Z(l, p) == (0 - coordinates.z[l]) + vertex.z[p]
    IN  [lp \in DOMAIN predicted_field |->
            Add(predicted_field[lp],
                Scale(sign, CallKernel(kernel, X(lp[1], lp[2]), Y(lp[1], lp[2]),
                                       Z(lp[1], lp[2]),
                                       sedm(coordinates, vertex, lp[1], lp[2]))))]

\* One pass of the loop body: predicted_field[:] += sign * kernel(X, Y, Z, R)
VertexStep(predicted_field, coordinates, prisms, kernel, ijk) ==
    LET sign == PowMinusOne(ijk[1] + ijk[2] + ijk[3])
        vertex == [x |-> prisms[VertexKey("x", ijk[1])],
                   y |-> prisms[VertexKey("y", ijk[2])],
                   z |-> prisms[VertexKey("z", ijk[3])]]
        X(l, p) == (0 - coordinates.x[l]) + vertex.x[p]
        Y(l, p) == (0 - coordinates.y[l]) + vertex.y[p]
        Z(l, p) == (0 - coordinates.z[l]) + vertex.z[p]
    IN  [lp \in DOMAIN predicted_field |->
            Add(predicted_field[lp],
                Scale(sign, CallKernel(kernel, X(lp[1], lp[2]), Y(lp[1], lp[2]),
                                       Z(lp[1], lp[2]),
                                       sedm(coordinates, vertex, lp[1], lp[2]))))]

RECURSIVE VertexLoop(_, _, _, _, _)
VertexLoop(predicted_field, coordinates, prisms, kernel, v) ==
    IF v > Len(VertexOrder) THEN predicted_field
    ELSE VertexLoop(VertexStep(predicted_field, coordinates, prisms, kernel,
                               VertexOrder[v]),
                    coordinates, prisms, kernel, v + 1)

\* np.sum(a, axis=1)[l] for a matrix a with columns 1..P
RECURSIVE SumAxis1(_, _, _)
SumAxis1(a, l, P) ==
    IF P = 0 THEN Zero ELSE Add(SumAxis1(a, l, P - 1), a[<<l, P>>])

\* The (D, P) matrix of signed corner sums before the weighting by sigma
PredictedField(coordinates, prisms, kernel) ==
    LET D == Size(coordinates.x)
        P == Size(prisms.x1)
    IN  VertexLoop([lp \in (1..D) \X (1..P) |-> Zero], coordinates, prisms,
                   kernel, 1)

iterate_over_vertices(coordinates, prisms, sigma, kernel) ==
    LET D == Size(coordinates.x)
        P == Size(prisms.x1)
        predicted_field == PredictedField(coordinates, prisms, kernel)
        weighted == [lp \in (1..D) \X (1..P) |->
                        Scale(sigma[lp[2]], predicted_field[lp])]
    IN  [l \in 1..D |-> SumAxis1(weighted, l, P)]

\* ------------------------------- rectangular_prism_numba.py: jit_grav, jit_mag
\* Fault seeded to test C1: the corner (1, 1, 1) added instead of subtracted
SignedSumCornerAdded(coordinates, prisms, field, l, p) ==
    LET X1 == prisms.x1[p] - coordinates.x[l]
        X2 == prisms.x2[p] - coordinates.x[l]
        Y1 == prisms.y1[p] - coordinates.y[l]
        Y2 == prisms.y2[p] - coordinates.y[l]
        Z1 == prisms.z1[p] - coordinates.z[l]
        Z2 == prisms.z2[p] - coordinates.z[l]
    IN  Add(Add(Add(Sub(Add(Sub(Sub(CallField(field, X2, Y2, Z2),
                                    CallField(field, X2, Y2, Z1)),
                                CallField(field, X1, Y2, Z2)),
                            CallField(field, X1, Y2, Z1)),
                        CallField(field, X2, Y1, Z2)),
                    CallField(field, X2, Y1, Z1)),
                CallField(field, X1, Y1, Z2)),
            CallField(field, X1, Y1, Z1))

\* The 8-term signed sum for point l and prism p, in the order written
SignedSum(coordinates, prisms, field, l, p) ==
    LET X1 == prisms.x1[p] - coordinates.x[l]
        X2 == prisms.x2[p] - coordinates.x[l]
        Y1 == prisms.y1[p] - coordinates.y[l]
        Y2 == prisms.y2[p] - coordinates.y[l]
        Z1 == prisms.z1[p] - coordinates.z[l]
        Z2 == prisms.z2[p] - coordinates.z[l]
    IN  Sub(Add(Add(Sub(Add(Sub(Sub(CallField(field, X2, Y2, Z2),
                                    CallField(field, X2, Y2, Z1)),
                                CallField(field, X1, Y2, Z2)),
                            CallField(field, X1, Y2, Z1)),
                        CallField(field, X2, Y1, Z2)),
                    CallField(field, X2, Y1, Z1)),
                CallField(field, X1, Y1, Z2)),
            CallField(field, X1, Y1, Z1))

\* Fault seeded to test C2: the loop over the prisms stops one prism early
RECURSIVE GravPrismLoopShort(_, _, _, _, _, _, _)
GravPrismLoopShort(acc, coordinates, prisms, density, field, l, p) ==
    IF p >= Size(prisms.x1) THEN acc
    ELSE GravPrismLoopShort(
             Add(acc, Scale(density[p],
                            SignedSum(coordinates, prisms, field, l, p))),
             coordinates, prisms, density, field, l, p + 1)

\* for p in range(P): out[l] += density[p] * (...), started at prism p
RECURSIVE GravPrismLoop(_, _, _, _, _, _, _)
GravPrismLoop(acc, coordinates, prisms, density, field, l, p) ==
    IF p > Size(prisms.x1) THEN acc
    ELSE GravPrismLoop(
             Add(acc, Scale(density[p],
                            SignedSum(coordinates, prisms, field, l, p))),
             coordinates, prisms, density, field, l, p + 1)

\* jit_grav writes into out; the value of out afterwards
jit_grav(coordinates, prisms, density, field, out) ==
    [l \in DOMAIN out |->
        IF l <= Size(coordinates.x)
        THEN GravPrismLoop(out[l], coordinates, prisms, density, field, l, 1)
        ELSE out[l]]

RECURSIVE MagPrismLoop(_, _, _, _, _, _, _, _, _, _, _)
MagPrismLoop(acc, coordinates, prisms, mx, my, mz, fieldx, fieldy, fieldz, l, p) ==
    IF p > Size(prisms.x1) THEN acc
    ELSE LET ax == Add(acc, Scale(mx[p],
                       SignedSum(coordinates, prisms, fieldx, l, p)))
             ay == Add(ax, Scale(my[p],
                       SignedSum(coordinates, prisms, fieldy, l, p)))
             az == Add(ay, Scale(mz[p],
                       SignedSum(coordinates, prisms, fieldz, l, p)))
         IN  MagPrismLoop(az, coordinates, prisms, mx, my, mz,
                          fieldx, fieldy, fieldz, l, p + 1)

jit_mag(coordinates, prisms, mx, my, mz, fieldx, fieldy, fieldz, out) ==
    [l \in DOMAIN out |->
        IF l <= Size(coordinates.x)
        THEN MagPrismLoop(out[l], coordinates, prisms, mx, my, mz,
                          fieldx, fieldy, fieldz, l, 1)
        ELSE out[l]]

\* ------------------------------------------------- check, constants (glue)
\* check.are_coordinates: the common length D of x, y, z; raises otherwise
are_coordinates(coordinates) ==
    [raises |-> ~(Size(coordinates.x) = Size(coordinates.y)
                  /\ Size(coordinates.y) = Size(coordinates.z)),
     returns |-> Size(coordinates.x)]

\* check.are_rectangular_prisms: the common length P of the six keys; raises
\* otherwise
are_rectangular_prisms(prisms) ==
    [raises |-> \E key \in {"x2", "y1", "y2", "z1", "z2"} :
                    Size(prisms[key]) # Size(prisms.x1),
     returns |-> Size(prisms.x1)]

\* check.is_array(a, ndim=1, shape=(P,)): TRUE when a has P elements
is_array(a, P) == Size(a) = P

\* An array scaled by a product of the constants of gravmag.constants:
\* data holds the unscaled elements, sign and units the factor, units
\* counting how often each constant was multiplied in; allocated tells
\* whether the array exists.
ConstantNames ==
    {"GRAVITATIONAL_CONST", "SI2MGAL", "SI2EOTVOS", "CM", "T2NT", "T2MT"}

NoUnits == [c \in ConstantNames |-> 0]

Unscaled(data) ==
    [allocated |-> TRUE, data |-> data, sign |-> 1, units |-> NoUnits]

\* No array yet
NoArray == [allocated |-> FALSE, data |-> << >>, sign |-> 1, units |-> NoUnits]

\* a *= sign * cts.<constant>
TimesConstant(a, sign, constant) ==
    [a EXCEPT !.sign = @ * sign, !.units[constant] = @ + 1]

\* np.zeros(D)
zeros(D) == [l \in 1..D |-> Zero]

\* resultx + resulty + resultz, elementwise
AddArrays(a, b) == [l \in DOMAIN a |-> Add(a[l], b[l])]

\* --------------------------------------------------- the dispatch dictionaries
GravFields == {"potential", "x", "y", "z", "xx", "xy", "xz", "yy", "yz", "zz"}

MagFields == {"potential", "x", "y", "z"}

\* rectangular_prism.py, grav: kernels
GravKernels ==
    ("potential" :> "kernel_potential_grav") @@ ("x" :> "kernel_x")
    @@ ("y" :> "kernel_y") @@ ("z" :> "kernel_z") @@ ("xx" :> "kernel_xx")
    @@ ("xy" :> "kernel_xy") @@ ("xz" :> "kernel_xz") @@ ("yy" :> "kernel_yy")
    @@ ("yz" :> "kernel_yz") @@ ("zz" :> "kernel_zz")

\* Fault seeded to test C3: the y field takes kernel_xz for the z component
MagKernelsMixedUp ==
    ("potential" :> [x |-> "kernel_x", y |-> "kernel_y", z |-> "kernel_z"])
    @@ ("z" :> [x |-> "kernel_xz", y |-> "kernel_yz", z |-> "kernel_zz"])
    @@ ("y" :> [x |-> "kernel_xy", y |-> "kernel_yy", z |-> "kernel_xz"])
    @@ ("x" :> [x |-> "kernel_xx", y |-> "kernel_xy", z |-> "kernel_xz"])

\* rectangular_prism.py, mag: kernels
MagKernels ==
    ("potential" :> [x |-> "kernel_x", y |-> "kernel_y", z |-> "kernel_z"])
    @@ ("z" :> [x |-> "kernel_xz", y |-> "kernel_yz", z |-> "kernel_zz"])
    @@ ("y" :> [x |-> "kernel_xy", y |-> "kernel_yy", z |-> "kernel_yz"])
    @@ ("x" :> [x |-> "kernel_xx", y |-> "kernel_xy", z |-> "kernel_xz"])

\* rectangular_prism_numba.py, grav: fields
GravFieldsNumba ==
    ("potential" :> "kernel_inverse_r") @@ ("x" :> "kernel_dx")
    @@ ("y" :> "kernel_dy") @@ ("z" :> "kernel_dz") @@ ("xx" :> "kernel_dxx")
    @@ ("xy" :> "kernel_dxy") @@ ("xz" :> "kernel_dxz") @@ ("yy" :> "kernel_dyy")
    @@ ("yz" :> "kernel_dyz") @@ ("zz" :> "kernel_dzz")

\* rectangular_prism_numba.py, mag: fields
MagFieldsNumba ==
    ("potential" :> [x |-> "kernel_dx", y |-> "kernel_dy", z |-> "kernel_dz"])
    @@ ("z" :> [x |-> "kernel_dxz", y |-> "kernel_dyz", z |-> "kernel_dzz"])
    @@ ("y" :> [x |-> "kernel_dxy", y |-> "kernel_dyy", z |-> "kernel_dyz"])
    @@ ("x" :> [x |-> "kernel_dxx", y |-> "kernel_dxy", z |-> "kernel_dxz"])

\* ------------------------------------------------------------------- state
VARIABLES
    pc,            \* position in the call of grav or mag
    module,        \* "numpy": rectangular_prism.py, "numba": rectangular_prism_numba.py
    fn,            \* "grav" or "mag"
    field,         \* the argument field
    scale,         \* the argument scale
    coordinates,   \* the argument coordinates
    prisms,        \* the argument prisms
    props,         \* the source properties: [density] for grav, [mx, my, mz] for mag
    D,             \* local D
    P,             \* local P
    kernels,       \* the kernel or the three kernels looked up for the field
    out,           \* the array allocated by the call, NoArray before
    result,        \* the array the local name result is bound to, "none" before
    error,         \* the exception raised, "none" if none
    kernel_calls,  \* number of kernel calls made so far
    probe,         \* input of a kernel or engine evaluated on its own
    value          \* what the evaluation of probe gave

vars == <<pc, module, fn, field, scale, coordinates, prisms, props, D, P,
          kernels, out, result, error, kernel_calls, probe, value>>

inputs == <<module, fn, field, scale, coordinates, prisms, props>>

\* ------------------------------------------------------------- input families
\* A profile of D stations one unit apart along x, starting at first
Profile(first, d) ==
    [x |-> [l \in 1..d |-> first[1] + (l - 1)],
     y |-> [l \in 1..d |-> first[2]],
     z |-> [l \in 1..d |-> first[3]]]

\* A row of P blocks side by side along x, each a copy of block
Row(block, p) ==
    LET w == block.x2 - block.x1
    IN  [x1 |-> [q \in 1..p |-> block.x1 + (q - 1) * w],
         x2 |-> [q \in 1..p |-> block.x2 + (q - 1) * w],
         y1 |-> [q \in 1..p |-> block.y1],
         y2 |-> [q \in 1..p |-> block.y2],
         z1 |-> [q \in 1..p |-> block.z1],
         z2 |-> [q \in 1..p |-> block.z2]]

FirstStations == {<<0, 0, 0>>, <<1, 1, 0 - 2>>}

Blocks ==
    {[x1 |-> 0, x2 |-> 1, y1 |-> 0, y2 |-> 2, z1 |-> 0, z2 |-> 1],
     [x1 |-> 0 - 1, x2 |-> 1, y1 |-> 1, y2 |-> 2, z1 |-> 0 - 1, z2 |-> 2]}

\* One value per prism, all different
Density(rho, p) == [density |-> [q \in 1..p |-> rho + (q - 1)]]

Magnetization(rho, p) ==
    [mx |-> [q \in 1..p |-> rho + (q - 1)],
     my |-> [q \in 1..p |-> 0 - rho],
     mz |-> [q \in 1..p |-> rho * q + 1]]

\* An array with one element too many
TooLong(a) == Append(a, 0)

\* The inputs with the array named by bad made inconsistent in length
Misshapen(c, pr, sg, bad) ==
    CASE bad = "ok" -> <<c, pr, sg>>
      [] bad = "coordinates" -> <<[c EXCEPT !.z = TooLong(@)], pr, sg>>
      [] bad = "prisms" -> <<c, [pr EXCEPT !.z2 = TooLong(@)], sg>>
      [] OTHER -> <<c, pr, [sg EXCEPT ![bad] = TooLong(@)]>>

FieldNames == GravFields \cup {"bogus"}

NoCall ==
    /\ pc = "idle" /\ module = "none" /\ fn = "none" /\ field = "none"
    /\ scale = FALSE /\ coordinates = "none" /\ prisms = "none"
    /\ props = "none" /\ D = "none" /\ P = "none" /\ kernels = "none"
    /\ out = NoArray /\ result = "none" /\ error = "none" /\ kernel_calls = 0

NoProbe == probe = "none" /\ value = "none"

\* The state at the entry of a call of grav or mag
Init ==
    /\ NoProbe
    /\ pc = "called"
    /\ module \in {"numpy", "numba"}
    /\ fn \in {"grav", "mag"}
    /\ field \in FieldNames
    /\ scale \in BOOLEAN
    /\ \E first \in FirstStations, block \in Blocks, d \in 1..MaxD, p \in 1..MaxP,
          rho \in 1..MaxSigma,
          bad \in {"ok", "coordinates", "prisms", "density", "mx", "my", "mz"} :
          LET sg == IF fn = "grav" THEN Density(rho, p) ELSE Magnetization(rho, p)
              args == Misshapen(Profile(first, d), Row(block, p), sg, bad)
          IN  /\ bad \in {"ok", "coordinates", "prisms"} \cup DOMAIN sg
              /\ coordinates = args[1]
              /\ prisms = args[2]
              /\ props = args[3]
    /\ D = "none" /\ P = "none" /\ kernels = "none" /\ out = NoArray
    /\ result = "none" /\ error = "none" /\ kernel_calls = 0

\* ------------------------------------------------------------ steps of a call
Raise(e) ==
    /\ pc' = "raised"
    /\ error' = e
    /\ UNCHANGED <<inputs, D, P, kernels, out, result, kernel_calls, probe, value>>

\* Fault seeded to test C6: the source properties are not checked
VerifyGeometryOnly(names) ==
    LET d == are_coordinates(coordinates)
        p == are_rectangular_prisms(prisms)
    IN  IF d.raises \/ p.raises
        THEN Raise("ShapeMismatch")
        ELSE /\ pc' = "verified"
             /\ D' = d.returns
             /\ P' = p.returns
             /\ UNCHANGED <<inputs, kernels, out, result, error, kernel_calls,
                            probe, value>>

\* "Verify the input parameters": the calls of check.* at the top of grav, mag
Verify(names) ==
    LET d == are_coordinates(coordinates)
        p == are_rectangular_prisms(prisms)
    IN  IF d.raises \/ p.raises
        THEN Raise("ShapeMismatch")
        ELSE IF \E name \in names : ~is_array(props[name], p.returns)
        THEN Raise("ShapeMismatch")
        ELSE /\ pc' = "verified"
             /\ D' = d.returns
             /\ P' = p.returns
             /\ UNCHANGED <<inputs, kernels, out, result, error, kernel_calls,
                            probe, value>>

\* Fault seeded to test C5: an unknown field falls back to the potential
SelectWithDefault(table) ==
    /\ pc' = "selected"
    /\ kernels' = IF field \in DOMAIN table THEN table[field] ELSE table["potential"]
    /\ UNCHANGED <<inputs, D, P, out, result, error, kernel_calls, probe, value>>

\* "Verify the field": if field not in kernels: raise ValueError
Select(table) ==
    IF field \notin DOMAIN table
    THEN Raise("ValueError")
    ELSE /\ pc' = "selected"
         /\ kernels' = table[field]
         /\ UNCHANGED <<inputs, D, P, out, result, error, kernel_calls,
                        probe, value>>

\* Fault seeded to test C7: the second derivatives are left in 1 / s**2
GravScaledWithoutEotvos(a) ==
    LET g == TimesConstant(a, 1, "GRAVITATIONAL_CONST")
    IN  IF field \in {"x", "y", "z"} THEN TimesConstant(g, 1, "SI2MGAL") ELSE g

\* The scale factors of grav applied to the array a
GravScaled(a) ==
    LET g == TimesConstant(a, 1, "GRAVITATIONAL_CONST")
        m == IF field \in {"x", "y", "z"} THEN TimesConstant(g, 1, "SI2MGAL") ELSE g
    IN  IF field \in {"xx", "xy", "xz", "yy", "yz", "zz"}
        THEN TimesConstant(m, 1, "SI2EOTVOS") ELSE m

\* The scale factors of mag applied to the array a
MagScaled(a) ==
    LET c == TimesConstant(a, 1, "CM")
        n == IF field \in {"x", "y", "z"} THEN TimesConstant(c, 1, "T2NT") ELSE c
    IN  IF field = "potential" THEN TimesConstant(n, -1, "T2MT") ELSE n

\* Fault seeded to test C10: the source properties are scaled in place
ScaleTheProperties(scaled) ==
    /\ pc = "assembled"
    /\ result = "out"
    /\ props' = IF scale = TRUE
                THEN [name \in DOMAIN props |->
                         [q \in DOMAIN props[name] |-> 0 - props[name][q]]]
                ELSE props
    /\ pc' = "returned"
    /\ UNCHANGED <<module, fn, field, scale, coordinates, prisms, D, P, kernels,
                   out, result, error, kernel_calls, probe, value>>

\* if scale is True: result *= ...; return result.  result names the array out.
ScaleAndReturn(scaled) ==
    /\ pc = "assembled"
    /\ result = "out"
    /\ out' = IF scale = TRUE THEN scaled ELSE out
    /\ pc' = "returned"
    /\ UNCHANGED <<inputs, D, P, kernels, result, error, kernel_calls, probe, value>>

\* ------------------------------------------------ rectangular_prism.py: grav
In(m, f, at) == module = m /\ fn = f /\ pc = at

grav_verify == In("numpy", "grav", "called") /\ Verify({"density"})

grav_select == In("numpy", "grav", "verified") /\ Select(GravKernels)

\* result = iterate_over_vertices(coordinates, prisms, density, kernels[field])
grav_compute ==
    /\ In("numpy", "grav", "selected")
    /\ out' = Unscaled(iterate_over_vertices(coordinates, prisms, props.density,
                                             kernels))
    /\ result' = "out"
    /\ kernel_calls' = kernel_calls + Len(VertexOrder)
    /\ pc' = "assembled"
    /\ UNCHANGED <<inputs, D, P, kernels, error, probe, value>>

grav_scale == In("numpy", "grav", "assembled") /\ ScaleAndReturn(GravScaled(out))

\* ------------------------------------------------- rectangular_prism.py: mag
mag_verify == In("numpy", "mag", "called") /\ Verify({"mx", "my", "mz"})

mag_select == In("numpy", "mag", "verified") /\ Select(MagKernels)

\* resultx, resulty, resultz and result = resultx + resulty + resultz
mag_compute ==
    /\ In("numpy", "mag", "selected")
    /\ LET resultx == iterate_over_vertices(coordinates, prisms, props.mx, kernels.x)
           resulty == iterate_over_vertices(coordinates, prisms, props.my, kernels.y)
           resultz == iterate_over_vertices(coordinates, prisms, props.mz, kernels.z)
       IN  out' = Unscaled(AddArrays(AddArrays(resultx, resulty), resultz))
    /\ result' = "out"
    /\ kernel_calls' = kernel_calls + 3 * Len(VertexOrder)
    /\ pc' = "assembled"
    /\ UNCHANGED <<inputs, D, P, kernels, error, probe, value>>

mag_scale == In("numpy", "mag", "assembled") /\ ScaleAndReturn(MagScaled(out))

\* ------------------------------------------ rectangular_prism_numba.py: grav
grav_numba_verify == In("numba", "grav", "called") /\ Verify({"density"})

grav_numba_select == In("numba", "grav", "verified") /\ Select(GravFieldsNumba)

\* result = np.zeros(D, dtype="float64")
Allocate ==
    /\ out' = Unscaled(zeros(D))
    /\ result' = "out"
    /\ pc' = "allocated"
    /\ UNCHANGED <<inputs, D, P, kernels, error, kernel_calls, probe, value>>

grav_numba_allocate == In("numba", "grav", "selected") /\ Allocate

\* jit_grav(coordinates, prisms, density, fields[field], result)
grav_numba_compute ==
    /\ In("numba", "grav", "allocated")
    /\ result = "out"
    /\ out' = [out EXCEPT !.data = jit_grav(coordinates, prisms, props.density,
                                            kernels, @)]
    /\ kernel_calls' = kernel_calls
                       + Len(VertexOrder) * Size(coordinates.x) * Size(prisms.x1)
    /\ pc' = "assembled"
    /\ UNCHANGED <<inputs, D, P, kernels, result, error, probe, value>>

grav_numba_scale ==
    In("numba", "grav", "assembled") /\ ScaleAndReturn(GravScaled(out))

\* ------------------------------------------- rectangular_prism_numba.py: mag
mag_numba_verify == In("numba", "mag", "called") /\ Verify({"mx", "my", "mz"})

mag_numba_select == In("numba", "mag", "verified") /\ Select(MagFieldsNumba)

mag_numba_allocate == In("numba", "mag", "selected") /\ Allocate

\* jit_mag(coordinates, prisms, mx, my, mz, fieldx, fieldy, fieldz, result)
mag_numba_compute ==
    /\ In("numba", "mag", "allocated")
    /\ result = "out"
    /\ LET fieldx == kernels.x
           fieldy == kernels.y
           fieldz == kernels.z
       IN  out' = [out EXCEPT !.data = jit_mag(coordinates, prisms, props.mx,
                                               props.my, props.mz, fieldx,
                                               fieldy, fieldz, @)]
    /\ kernel_calls' = kernel_calls
                       + 3 * Len(VertexOrder) * Size(coordinates.x) * Size(prisms.x1)
    /\ pc' = "assembled"
    /\ UNCHANGED <<inputs, D, P, kernels, result, error, probe, value>>

mag_numba_scale ==
    In("numba", "mag", "assembled") /\ ScaleAndReturn(MagScaled(out))

Next ==
    \/ grav_verify \/ grav_select \/ grav_compute \/ grav_scale
    \/ mag_verify \/ mag_select \/ mag_compute \/ mag_scale
    \/ grav_numba_verify \/ grav_numba_select \/ grav_numba_allocate
    \/ grav_numba_compute \/ grav_numba_scale
    \/ mag_numba_verify \/ mag_numba_select \/ mag_numba_allocate
    \/ mag_numba_compute \/ mag_numba_scale

Spec == Init /\ [][Next]_vars

\* --------------------------------------- kernels and engines on their own
\* The geometry of one observation point and one prism
OnePoint(pt) == [x |-> <<pt[1]>>, y |-> <<pt[2]>>, z |-> <<pt[3]>>]

Prisms(seq) ==
    [x1 |-> [q \in DOMAIN seq |-> seq[q].x1], x2 |-> [q \in DOMAIN seq |-> seq[q].x2],
     y1 |-> [q \in DOMAIN seq |-> seq[q].y1], y2 |-> [q \in DOMAIN seq |-> seq[q].y2],
     z1 |-> [q \in DOMAIN seq |-> seq[q].z1], z2 |-> [q \in DOMAIN seq |-> seq[q].z2]]

Cube == {<<x, y, z>> : x \in 0..MaxCoord, y \in 0..MaxCoord, z \in 0..MaxCoord}

Ranges == {r \in (0..MaxCoord) \X (0..MaxCoord) : r[1] <= r[2]}

\* The prisms with x1 <= x2, y1 <= y2, z1 <= z2 and faces in 0..MaxCoord
Boxes ==
    {[x1 |-> rx[1], x2 |-> rx[2], y1 |-> ry[1], y2 |-> ry[2],
      z1 |-> rz[1], z2 |-> rz[2]] : rx \in Ranges, ry \in Ranges, rz \in Ranges}

\* A kernel of each module at relative coordinates X, Y, Z
InitKernel ==
    /\ NoCall
    /\ probe \in [field : GravFields, X : (0 - MaxRel)..MaxRel,
                  Y : (0 - MaxRel)..MaxRel, Z : (0 - MaxRel)..MaxRel]
    /\ value = "none"

EvalKernel ==
    /\ pc = "idle"
    /\ pc' = "evaluated"
    /\ value' = [numpy |-> CallKernel(GravKernels[probe.field], probe.X, probe.Y,
                                      probe.Z, RSq(probe.X, probe.Y, probe.Z)),
                 numba |-> CallField(GravFieldsNumba[probe.field], probe.X,
                                     probe.Y, probe.Z)]
    /\ UNCHANGED <<inputs, D, P, kernels, out, result, error, kernel_calls, probe>>

SpecKernel == InitKernel /\ [][EvalKernel]_vars

\* The signed corner sum of one prism at one point, in both engines
InitPair ==
    /\ NoCall
    /\ probe \in [field : GravFields, point : Cube, prism : Boxes]
    /\ value = "none"

EvalPair ==
    /\ pc = "idle"
    /\ pc' = "evaluated"
    /\ LET c == OnePoint(probe.point)
           pr == Prisms(<<probe.prism>>)
       IN  value' = [batched |-> PredictedField(c, pr, GravKernels[probe.field])
                                     [<<1, 1>>],
                     direct |-> SignedSum(c, pr, GravFieldsNumba[probe.field], 1, 1)]
    /\ UNCHANGED <<inputs, D, P, kernels, out, result, error, kernel_calls, probe>>

SpecPair == InitPair /\ [][EvalPair]_vars

\* A prism from 0 to hi along axis, and the two prisms it is cut into at mid
CutAxes == {"x", "y", "z"}

WholePrism(axis, lo, hi) ==
    [x1 |-> IF axis = "x" THEN lo ELSE 0, x2 |-> IF axis = "x" THEN hi ELSE 1,
     y1 |-> IF axis = "y" THEN lo ELSE 0, y2 |-> IF axis = "y" THEN hi ELSE 1,
     z1 |-> IF axis = "z" THEN lo ELSE 0, z2 |-> IF axis = "z" THEN hi ELSE 1]

LowerPart(prism, axis, mid) == [prism EXCEPT ![VertexKey(axis, 2)] = mid]

UpperPart(prism, axis, mid) == [prism EXCEPT ![VertexKey(axis, 1)] = mid]

InitSplit ==
    /\ NoCall
    /\ \E f \in GravFields, pt \in Cube, axis \in CutAxes, rho \in 1..MaxSigma,
          mid \in 0..MaxCut, hi \in 0..MaxCut :
          /\ mid <= hi
          /\ probe = [field |-> f, point |-> pt, axis |-> axis, mid |-> mid,
                      rho |-> rho, prism |-> WholePrism(axis, 0, hi)]
    /\ value = "none"

\* The gravity field of the prisms in seq, all of density rho, in both engines
BothEngines(pt, seq, rho, f) ==
    LET c == OnePoint(pt)
        pr == Prisms(seq)
        density == [q \in DOMAIN seq |-> rho]
    IN  [batched |-> iterate_over_vertices(c, pr, density, GravKernels[f])[1],
         direct |-> jit_grav(c, pr, density, GravFieldsNumba[f], zeros(1))[1]]

EvalSplit ==
    /\ pc = "idle"
    /\ pc' = "evaluated"
    /\ value' =
         [whole |-> BothEngines(probe.point, <<probe.prism>>, probe.rho, probe.field),
          parts |-> BothEngines(probe.point,
                                <<LowerPart(probe.prism, probe.axis, probe.mid),
                                  UpperPart(probe.prism, probe.axis, probe.mid)>>,
                                probe.rho, probe.field)]
    /\ UNCHANGED <<inputs, D, P, kernels, out, result, error, kernel_calls, probe>>

SpecSplit == InitSplit /\ [][EvalSplit]_vars

\* ------------------------------- the pairs of jit_grav, jit_mag in any order
\* out[l] += density[p] * (...): the body of the loops for point l and prism p
GravBody(acc, c, pr, density, f, l, p) ==
    Add(acc, Scale(density[p], SignedSum(c, pr, f, l, p)))

\* The three statements out[l] += mx[p] * (...), my[p] * (...), mz[p] * (...)
MagBody(acc, c, pr, mx, my, mz, fieldx, fieldy, fieldz, l, p) ==
    LET ax == Add(acc, Scale(mx[p], SignedSum(c, pr, fieldx, l, p)))
        ay == Add(ax, Scale(my[p], SignedSum(c, pr, fieldy, l, p)))
    IN  Add(ay, Scale(mz[p], SignedSum(c, pr, fieldz, l, p)))

\* The body of the loop of the function called, on the geometry c, pr and the
\* source properties sg
BodyOn(acc, c, pr, sg, l, p) ==
    IF fn = "grav"
    THEN GravBody(acc, c, pr, sg.density, kernels, l, p)
    ELSE MagBody(acc, c, pr, sg.mx, sg.my, sg.mz,
                 kernels.x, kernels.y, kernels.z, l, p)

Body(acc, l, p) == BodyOn(acc, coordinates, prisms, props, l, p)

Workers == {"a", "b"}

Disciplines == {"owned", "private"}

WorkerFields == {"z"}

WorkerBlock == [x1 |-> 0, x2 |-> 1, y1 |-> 0, y2 |-> 2, z1 |-> 0, z2 |-> 1]

\* A worker between two pairs
Resting == [busy |-> FALSE, l |-> 0, p |-> 0, read |-> Zero]

\* The pairs (l, p) of the two loops
Pairs == (1..Size(coordinates.x)) \X (1..Size(prisms.x1))

\* The accumulator worker w adds to: out, or an array of its own
Accumulator(w) ==
    IF probe.discipline = "owned" THEN out.data ELSE value.private[w]

\* The pairs are partitioned among the workers: by point when the workers add
\* to out, by prism when each adds to an array of its own
MayTake(w, lp) ==
    IF probe.discipline = "owned" THEN probe.owner[lp[1]] = w
    ELSE probe.owner[lp[2]] = w

\* The loops entered with out allocated, the pairs shared out among workers
InitWorkers ==
    /\ pc = "running"
    /\ module = "numba"
    /\ fn \in {"grav", "mag"}
    /\ field \in WorkerFields
    /\ scale = FALSE
    /\ coordinates = Profile(<<0, 0, 0>>, MaxD)
    /\ prisms = Row(WorkerBlock, MaxP)
    /\ props = IF fn = "grav" THEN Density(1, MaxP) ELSE Magnetization(1, MaxP)
    /\ D = MaxD /\ P = MaxP
    /\ kernels = IF fn = "grav" THEN GravFieldsNumba[field]
                 ELSE MagFieldsNumba[field]
    /\ out = Unscaled(zeros(MaxD))
    /\ result = "out" /\ error = "none" /\ kernel_calls = 0
    /\ \E d \in Disciplines :
          \E owner \in [1..(IF d = "owned" THEN MaxD ELSE MaxP) -> Workers] :
             /\ owner[1] = "a"
             /\ probe = [discipline |-> d, owner |-> owner]
    /\ value = [holding |-> [w \in Workers |-> Resting],
                private |-> [w \in Workers |-> zeros(MaxD)],
                pending |-> (1..MaxD) \X (1..MaxP)]

\* Fault seeded to test C11: a worker takes pairs of the other worker
TakeUnowned(w) ==
    /\ pc = "running"
    /\ ~value.holding[w].busy
    /\ \E lp \in value.pending :
          value' = [value EXCEPT
                      !.holding[w] = [busy |-> TRUE, l |-> lp[1], p |-> lp[2],
                                      read |-> Accumulator(w)[lp[1]]],
                      !.pending = @ \ {lp}]
    /\ UNCHANGED <<pc, inputs, D, P, kernels, out, result, error, kernel_calls,
                   probe>>

\* Worker w starts out[l] += ... for a pair not yet done: it reads out[l]
Take(w) ==
    /\ pc = "running"
    /\ ~value.holding[w].busy
    /\ \E lp \in value.pending :
          /\ MayTake(w, lp)
          /\ value' = [value EXCEPT
                         !.holding[w] = [busy |-> TRUE, l |-> lp[1], p |-> lp[2],
                                         read |-> Accumulator(w)[lp[1]]],
                         !.pending = @ \ {lp}]
    /\ UNCHANGED <<pc, inputs, D, P, kernels, out, result, error, kernel_calls,
                   probe>>

\* Worker w ends out[l] += ...: it writes what it read plus the contribution
Put(w) ==
    /\ pc = "running"
    /\ value.holding[w].busy
    /\ LET h == value.holding[w]
           sum == Body(h.read, h.l, h.p)
       IN  IF probe.discipline = "owned"
           THEN /\ out' = [out EXCEPT !.data[h.l] = sum]
                /\ value' = [value EXCEPT !.holding[w] = Resting]
           ELSE /\ out' = out
                /\ value' = [value EXCEPT !.holding[w] = Resting,
                                          !.private[w][h.l] = sum]
    /\ kernel_calls' = kernel_calls
                       + (IF fn = "grav" THEN 1 ELSE 3) * Len(VertexOrder)
    /\ UNCHANGED <<pc, inputs, D, P, kernels, result, error, probe>>

\* All pairs done: the arrays of the workers, if any, are added into out
Merge ==
    /\ pc = "running"
    /\ value.pending = {}
    /\ \A w \in Workers : ~value.holding[w].busy
    /\ out' = IF probe.discipline = "owned" THEN out
              ELSE [out EXCEPT !.data = AddArrays(AddArrays(@, value.private["a"]),
                                                  value.private["b"])]
    /\ pc' = "merged"
    /\ UNCHANGED <<inputs, D, P, kernels, result, error, kernel_calls, probe, value>>

NextWorkers ==
    \/ \E w \in Workers : Take(w)
    \/ \E w \in Workers : Put(w)
    \/ Merge

SpecWorkers == InitWorkers /\ [][NextWorkers]_vars

\* ----------------------------------- the loops step by step, run two times
\* The 8 terms of the sum of jit_grav and jit_mag in the order written, as
\* (i, j, k) for field(Xi, Yj, Zk), and their signs
TermOrder ==
    << <<2, 2, 2>>, <<2, 2, 1>>, <<1, 2, 2>>, <<1, 2, 1>>,
       <<2, 1, 2>>, <<2, 1, 1>>, <<1, 1, 2>>, <<1, 1, 1>> >>

TermSign == <<1, 0 - 1, 0 - 1, 1, 0 - 1, 1, 1, 0 - 1>>

\* The source properties in the order of the statements that use them
Components == IF fn = "grav" THEN <<"density">> ELSE <<"mx", "my", "mz">>

\* The kernel used with component c
KernelOf(c) == IF fn = "grav" THEN kernels ELSE kernels[<<"x", "y", "z">>[c]]

\* field(Xi, Yj, Zk) for point l and prism p
TermAt(f, l, p, ijk) ==
    CallField(f, prisms[VertexKey("x", ijk[1])][p] - coordinates.x[l],
                 prisms[VertexKey("y", ijk[2])][p] - coordinates.y[l],
                 prisms[VertexKey("z", ijk[3])][p] - coordinates.z[l])

\* Fault seeded to test C12: the loop over the points inside the one over prisms
DirectAdvanceLoopsSwapped(cur) ==
    IF cur.c < Len(Components) THEN [cur EXCEPT !.c = @ + 1, !.v = 1]
    ELSE IF cur.l < D THEN [cur EXCEPT !.l = @ + 1, !.c = 1, !.v = 1]
    ELSE [cur EXCEPT !.p = @ + 1, !.l = IF cur.p < P THEN 1 ELSE D + 1,
                     !.c = 1, !.v = 1]

\* What follows a statement out[l] += ...: the next statement of the body, the
\* next prism, the next point, or the end of the loops (l = D + 1)
DirectAdvance(cur) ==
    IF cur.c < Len(Components) THEN [cur EXCEPT !.c = @ + 1, !.v = 1]
    ELSE IF cur.p < P THEN [cur EXCEPT !.p = @ + 1, !.c = 1, !.v = 1]
    ELSE [cur EXCEPT !.l = @ + 1, !.p = 1, !.c = 1, !.v = 1]

NoFirstRun == [data |-> << >>, trace |-> << >>]

\* The locals of a run at its start
RunStart(run, first) ==
    IF module = "numba"
    THEN [run |-> run, first |-> first, trace |-> << >>,
          cur |-> [l |-> 1, p |-> 1, c |-> 1, v |-> 1], s |-> Zero]
    ELSE [run |-> run, first |-> first, trace |-> << >>,
          cur |-> [c |-> 1, v |-> 1],
          predicted_field |-> [lp \in (1..D) \X (1..P) |-> Zero],
          results |-> << >>]

\* A call of grav or mag at the start of its loops, its checks passed
InitRuns ==
    /\ pc = "looping"
    /\ module \in {"numpy", "numba"}
    /\ fn \in {"grav", "mag"}
    /\ field \in (IF fn = "grav" THEN GravFields ELSE MagFields)
    /\ scale = FALSE
    /\ \E first \in FirstStations, block \in Blocks :
          /\ coordinates = Profile(first, MaxD)
          /\ prisms = Row(block, MaxP)
    /\ props = IF fn = "grav" THEN Density(1, MaxP) ELSE Magnetization(1, MaxP)
    /\ D = MaxD /\ P = MaxP
    /\ kernels = CASE module = "numpy" /\ fn = "grav" -> GravKernels[field]
                   [] module = "numpy" /\ fn = "mag" -> MagKernels[field]
                   [] module = "numba" /\ fn = "grav" -> GravFieldsNumba[field]
                   [] module = "numba" /\ fn = "mag" -> MagFieldsNumba[field]
    /\ out = IF module = "numba" THEN Unscaled(zeros(MaxD)) ELSE NoArray
    /\ result = IF module = "numba" THEN "out" ELSE "none"
    /\ error = "none" /\ kernel_calls = 0
    /\ probe = "none"
    /\ value = RunStart(1, NoFirstRun)

\* jit_grav, jit_mag: one term of the 8-term sum is evaluated and added
Term ==
    /\ pc = "looping" /\ module = "numba"
    /\ value.cur.l <= D /\ value.cur.v <= Len(TermOrder)
    /\ LET cur == value.cur
           t == TermAt(KernelOf(cur.c), cur.l, cur.p, TermOrder[cur.v])
       IN  value' = [value EXCEPT
                       !.s = Add(@, Scale(TermSign[cur.v], t)),
                       !.trace = Append(@, <<cur.l, cur.p, cur.c, TermOrder[cur.v]>>),
                       !.cur.v = @ + 1]
    /\ kernel_calls' = kernel_calls + 1
    /\ UNCHANGED <<pc, inputs, D, P, kernels, out, result, error, probe>>

\* jit_grav, jit_mag: out[l] += sigma[p] * (the sum), then on to what follows
AddInto ==
    /\ pc = "looping" /\ module = "numba"
    /\ value.cur.l <= D /\ value.cur.v > Len(TermOrder)
    /\ LET cur == value.cur
           sigma == props[Components[cur.c]]
       IN  /\ out' = [out EXCEPT !.data[cur.l] = Add(@, Scale(sigma[cur.p], value.s))]
           /\ value' = [value EXCEPT !.s = Zero, !.cur = DirectAdvance(cur)]
           /\ pc' = IF DirectAdvance(cur).l > D \/ DirectAdvance(cur).p > P
                    THEN "ran" ELSE "looping"
    /\ UNCHANGED <<inputs, D, P, kernels, result, error, kernel_calls, probe>>

\* iterate_over_vertices: one pass of the loops over i, j, k
Vertex ==
    /\ pc = "looping" /\ module = "numpy"
    /\ value.cur.v <= Len(VertexOrder)
    /\ LET cur == value.cur
       IN  value' = [value EXCEPT
                       !.predicted_field =
                           VertexStep(@, coordinates, prisms, KernelOf(cur.c),
                                      VertexOrder[cur.v]),
                       !.trace = Append(@, <<cur.c, VertexOrder[cur.v]>>),
                       !.cur.v = @ + 1]
    /\ kernel_calls' = kernel_calls + 1
    /\ UNCHANGED <<pc, inputs, D, P, kernels, out, result, error, probe>>

\* iterate_over_vertices: np.sum(predicted_field * sigma, axis=1) is returned;
\* after the last call, grav binds result to it, mag to the sum of the three
Reduce ==
    /\ pc = "looping" /\ module = "numpy"
    /\ value.cur.v > Len(VertexOrder)
    /\ LET cur == value.cur
           sigma == props[Components[cur.c]]
           weighted == [lp \in (1..D) \X (1..P) |->
                           Scale(sigma[lp[2]], value.predicted_field[lp])]
           returned == [l \in 1..D |-> SumAxis1(weighted, l, P)]
           results == Append(value.results, returned)
       IN  IF cur.c < Len(Components)
           THEN /\ value' = [value EXCEPT
                               !.results = results,
                               !.predicted_field = [lp \in (1..D) \X (1..P) |-> Zero],
                               !.cur = [c |-> cur.c + 1, v |-> 1]]
                /\ UNCHANGED <<pc, out, result>>
           ELSE /\ value' = [value EXCEPT !.results = results]
                /\ out' = Unscaled(IF fn = "grav" THEN results[1]
                                   ELSE AddArrays(AddArrays(results[1], results[2]),
                                                  results[3]))
                /\ result' = "out"
                /\ pc' = "ran"
    /\ UNCHANGED <<inputs, D, P, kernels, error, kernel_calls, probe>>

\* The same call is made a second time
Again ==
    /\ pc = "ran" /\ value.run = 1
    /\ value' = RunStart(2, [data |-> out.data, trace |-> value.trace])
    /\ out' = IF module = "numba" THEN Unscaled(zeros(D)) ELSE NoArray
    /\ result' = IF module = "numba" THEN "out" ELSE "none"
    /\ kernel_calls' = 0
    /\ pc' = "looping"
    /\ UNCHANGED <<inputs, D, P, kernels, error, probe>>

NextRuns == Term \/ AddInto \/ Vertex \/ Reduce \/ Again

SpecRuns == InitRuns /\ [][NextRuns]_vars

\* ------------------------------------ prisms with faces equal or exchanged
\* The magnetic field of the prisms in seq, of magnetization m, in both engines
BothEnginesMag(pt, seq, m, f) ==
    LET c == OnePoint(pt)
        pr == Prisms(seq)
        resultx == iterate_over_vertices(c, pr, m.mx, MagKernels[f].x)
        resulty == iterate_over_vertices(c, pr, m.my, MagKernels[f].y)
        resultz == iterate_over_vertices(c, pr, m.mz, MagKernels[f].z)
    IN  [batched |-> AddArrays(AddArrays(resultx, resulty), resultz)[1],
         direct |-> jit_mag(c, pr, m.mx, m.my, m.mz, MagFieldsNumba[f].x,
                            MagFieldsNumba[f].y, MagFieldsNumba[f].z, zeros(1))[1]]

\* The field named f of grav or mag for one prism at one point, in both engines
FieldOfPrism(f_n, pt, prism, rho, f) ==
    IF f_n = "grav" THEN BothEngines(pt, <<prism>>, rho, f)
    ELSE BothEnginesMag(pt, <<prism>>, Magnetization(rho, 1), f)

\* The prism with its two faces across axis exchanged
Exchanged(prism, axis) ==
    [prism EXCEPT ![VertexKey(axis, 1)] = prism[VertexKey(axis, 2)],
                  ![VertexKey(axis, 2)] = prism[VertexKey(axis, 1)]]

\* The prism with no thickness along axis: both faces at the first one
Flattened(prism, axis) ==
    [prism EXCEPT ![VertexKey(axis, 2)] = prism[VertexKey(axis, 1)]]

\* A prism whose faces across axis are any two coordinates, in any order
InitFaces ==
    /\ NoCall
    /\ \E f_n \in {"grav", "mag"}, pt \in Cube, axis \in CutAxes,
          lo \in 0..MaxCoord, hi \in 0..MaxCoord :
          \E f \in (IF f_n = "grav" THEN GravFields ELSE MagFields) :
             probe = [fn |-> f_n, field |-> f, point |-> pt, axis |-> axis,
                      rho |-> MaxSigma, prism |-> WholePrism(axis, lo, hi)]
    /\ value = "none"

EvalFaces ==
    /\ pc = "idle"
    /\ pc' = "evaluated"
    /\ value' =
         [given |-> FieldOfPrism(probe.fn, probe.point, probe.prism, probe.rho,
                                 probe.field),
          exchanged |-> FieldOfPrism(probe.fn, probe.point,
                                     Exchanged(probe.prism, probe.axis),
                                     probe.rho, probe.field),
          flat |-> FieldOfPrism(probe.fn, probe.point,
                                Flattened(probe.prism, probe.axis),
                                probe.rho, probe.field)]
    /\ UNCHANGED <<inputs, D, P, kernels, out, result, error, kernel_calls, probe>>

SpecFaces == InitFaces /\ [][EvalFaces]_vars

\* ------------------------------------------------- the stated field formulas
\* The sign of each corner (i, j, k) as the specification lists them
CornerSign ==
    (<<1, 1, 1>> :> -1) @@ (<<2, 1, 1>> :> 1) @@ (<<1, 2, 1>> :> 1)
    @@ (<<1, 1, 2>> :> 1) @@ (<<2, 2, 1>> :> -1) @@ (<<2, 1, 2>> :> -1)
    @@ (<<1, 2, 2>> :> -1) @@ (<<2, 2, 2>> :> 1)

Corners == {1, 2} \X {1, 2} \X {1, 2}

\* The sum of the terms t[e] over the elements e of the domain of t
RECURSIVE SumOf(_)
SumOf(t) ==
    IF DOMAIN t = {} THEN Zero
    ELSE LET e == CHOOSE e \in DOMAIN t : TRUE
         IN  Add(t[e], SumOf([d \in DOMAIN t \ {e} |-> t[d]]))

\* corner_sum: the sum over the 8 corners of s * K(Xi, Yj, Zk), with
\* Xi = xi - px, Yj = yj - py, Zk = zk - pz
CornerSum(K(_, _, _), pt, prism) ==
    LET Xi(i) == (IF i = 1 THEN prism.x1 ELSE prism.x2) - pt[1]
        Yj(j) == (IF j = 1 THEN prism.y1 ELSE prism.y2) - pt[2]
        Zk(k) == (IF k = 1 THEN prism.z1 ELSE prism.z2) - pt[3]
    IN  SumOf([c \in Corners |->
                  Scale(CornerSign[c], K(Xi(c[1]), Yj(c[2]), Zk(c[3])))])

\* The kernel the table of the kernel library gives for a name
TableKernel(name, X, Y, Z) ==
    LET n == RSq(X, Y, Z)
    IN  CASE name = "potential" -> kernel_potential_grav(X, Y, Z, n)
          [] name = "x" -> kernel_x(X, Y, Z, n)
          [] name = "y" -> kernel_y(X, Y, Z, n)
          [] name = "z" -> kernel_z(X, Y, Z, n)
          [] name = "xx" -> kernel_xx(X, Y, Z, n)
          [] name = "xy" -> kernel_xy(X, Y, Z, n)
          [] name = "xz" -> kernel_xz(X, Y, Z, n)
          [] name = "yy" -> kernel_yy(X, Y, Z, n)
          [] name = "yz" -> kernel_yz(X, Y, Z, n)
          [] name = "zz" -> kernel_zz(X, Y, Z, n)

PointAt(c, l) == <<c.x[l], c.y[l], c.z[l]>>

PrismAt(pr, p) ==
    [x1 |-> pr.x1[p], x2 |-> pr.x2[p], y1 |-> pr.y1[p], y2 |-> pr.y2[p],
     z1 |-> pr.z1[p], z2 |-> pr.z2[p]]

\* corner_sum(l, p, kernel named name) for the arguments of the call
CornerSumAt(l, p, name) ==
    CornerSum(LAMBDA X, Y, Z : TableKernel(name, X, Y, Z),
              PointAt(coordinates, l), PrismAt(prisms, p))

\* The three kernels of a magnetic field, one per magnetization component
MagTable ==
    ("potential" :> [x |-> "x", y |-> "y", z |-> "z"])
    @@ ("x" :> [x |-> "xx", y |-> "xy", z |-> "xz"])
    @@ ("y" :> [x |-> "xy", y |-> "yy", z |-> "yz"])
    @@ ("z" :> [x |-> "xz", y |-> "yz", z |-> "zz"])

\* Sum over prisms of density * corner_sum, one value per observation point
GravityFormula ==
    [l \in 1..Size(coordinates.x) |->
        SumOf([p \in 1..Size(prisms.x1) |->
                  Scale(props.density[p], CornerSumAt(l, p, field))])]

MagneticFormula ==
    [l \in 1..Size(coordinates.x) |->
        SumOf([p \in 1..Size(prisms.x1) |->
                  Add(Add(Scale(props.mx[p], CornerSumAt(l, p, MagTable[field].x)),
                          Scale(props.my[p], CornerSumAt(l, p, MagTable[field].y))),
                      Scale(props.mz[p], CornerSumAt(l, p, MagTable[field].z)))])]

\* ------------------------------------------------------------------- claims
\* C1: for every prism, point and kernel, both engines form the per-prism,
\* per-point value as the sum over the 8 corners of s * kernel(Xi, Yj, Zk),
\* corner minus point, s = (-1)^(i+j+k) as listed, each corner once.
C1_CornerSum ==
    pc = "evaluated" =>
        /\ value.batched =
               CornerSum(LAMBDA X, Y, Z :
                             CallKernel(GravKernels[probe.field], X, Y, Z,
                                        RSq(X, Y, Z)),
                         probe.point, probe.prism)
        /\ value.direct =
               CornerSum(LAMBDA X, Y, Z :
                             CallField(GravFieldsNumba[probe.field], X, Y, Z),
                         probe.point, probe.prism)
        /\ \A c \in Corners : CornerSign[c] = PowMinusOne(c[1] + c[2] + c[3])

\* A prism of positive volume whose x field does not vanish at the point
C1_Witness ==
    /\ pc = "evaluated"
    /\ probe.prism.x1 < probe.prism.x2
    /\ probe.prism.y1 < probe.prism.y2
    /\ probe.prism.z1 < probe.prism.z2
    /\ probe.field = "x"
    /\ value.batched # Zero
    /\ value.direct # Zero

\* C2: grav, unscaled, returns one value per observation point, the sum over
\* the prisms of density[p] * corner_sum(l, p, the kernel of the field).
C2_Gravity ==
    (pc = "returned" /\ fn = "grav" /\ scale = FALSE) =>
        /\ out.allocated
        /\ Len(out.data) = Size(coordinates.x)
        /\ out = Unscaled(GravityFormula)

C2_Witness ==
    /\ pc = "returned" /\ fn = "grav" /\ scale = FALSE
    /\ Size(prisms.x1) = 2 /\ Size(coordinates.x) = 2
    /\ \A l \in 1..2 : out.data[l] # Zero

\* C3: mag, unscaled, returns the sum over the prisms of
\* mx * corner_sum(kx) + my * corner_sum(ky) + mz * corner_sum(kz) with the
\* kernels of the mapping table, and the kernel of (field a, component b)
\* is the kernel of (field b, component a) in both modules.
C3_Magnetic ==
    /\ (pc = "returned" /\ fn = "mag" /\ scale = FALSE) =>
           out = Unscaled(MagneticFormula)
    /\ \A a \in {"x", "y", "z"}, b \in {"x", "y", "z"} :
           /\ MagKernels[a][b] = MagKernels[b][a]
           /\ MagFieldsNumba[a][b] = MagFieldsNumba[b][a]

C3_Witness ==
    /\ pc = "returned" /\ fn = "mag" /\ scale = FALSE /\ field = "y"
    /\ Size(prisms.x1) = 2
    /\ \A l \in DOMAIN out.data : out.data[l] # Zero

\* What the other module returns for the arguments of the call
OtherModuleReturns ==
    LET data ==
            IF module = "numpy"
            THEN IF fn = "grav"
                 THEN jit_grav(coordinates, prisms, props.density,
                               GravFieldsNumba[field], zeros(Size(coordinates.x)))
                 ELSE jit_mag(coordinates, prisms, props.mx, props.my, props.mz,
                              MagFieldsNumba[field].x, MagFieldsNumba[field].y,
                              MagFieldsNumba[field].z, zeros(Size(coordinates.x)))
            ELSE IF fn = "grav"
                 THEN iterate_over_vertices(coordinates, prisms, props.density,
                                            GravKernels[field])
                 ELSE AddArrays(
                          AddArrays(
                              iterate_over_vertices(coordinates, prisms, props.mx,
                                                    MagKernels[field].x),
                              iterate_over_vertices(coordinates, prisms, props.my,
                                                    MagKernels[field].y)),
                          iterate_over_vertices(coordinates, prisms, props.mz,
                                                MagKernels[field].z))
    IN  IF scale = TRUE
        THEN IF fn = "grav" THEN GravScaled(Unscaled(data))
             ELSE MagScaled(Unscaled(data))
        ELSE Unscaled(data)

\* C4: the batched strategy of rectangular_prism.py and the direct
\* accumulation of rectangular_prism_numba.py return the same output for the
\* same points, prisms, source properties and field, gravity and magnetic.
C4_SameOutput == pc = "returned" => out = OtherModuleReturns

C4_Witness ==
    /\ pc = "returned" /\ module = "numpy" /\ fn = "mag" /\ field = "z"
    /\ Size(prisms.x1) = 2 /\ Size(coordinates.x) = 2
    /\ \A l \in 1..2 : out.data[l] # Zero

\* The field names of the interface
FieldRecognized ==
    IF fn = "grav" THEN field \in GravFields ELSE field \in MagFields

\* All coordinate arrays of one length, all prism arrays of one length P, all
\* source properties of length P
ShapesConsistent ==
    /\ Len(coordinates.y) = Len(coordinates.x)
    /\ Len(coordinates.z) = Len(coordinates.x)
    /\ \A key \in {"x2", "y1", "y2", "z1", "z2"} : Len(prisms[key]) = Len(prisms.x1)
    /\ \A name \in DOMAIN props : Len(props[name]) = Len(prisms.x1)

\* C5: a call with an unrecognized field name (for mag also the second
\* derivatives) ends in an error, a ValueError whenever the arrays pass the
\* checks before it, with no kernel evaluated, no output allocated and
\* nothing returned.
C5_UnknownField ==
    ~FieldRecognized =>
        /\ pc \in {"called", "verified", "raised"}
        /\ kernel_calls = 0
        /\ ~out.allocated
        /\ result = "none"
        /\ pc = "raised" => error \in {"ValueError", "ShapeMismatch"}
        /\ (pc = "raised" /\ ShapesConsistent) => error = "ValueError"

C5_Witness ==
    /\ pc = "raised" /\ error = "ValueError" /\ fn = "mag" /\ field = "xx"
    /\ kernel_calls = 0 /\ ~out.allocated

\* C6: arrays of inconsistent lengths are rejected with a ShapeMismatch error
\* by the checks at the top of grav and mag, before the kernel lookup and
\* before the engine: the engine only runs on consistent shapes.
C6_ShapeMismatch ==
    ~ShapesConsistent =>
        /\ pc \in {"called", "raised"}
        /\ pc = "raised" => error = "ShapeMismatch"
        /\ kernel_calls = 0
        /\ ~out.allocated

C6_Witness ==
    /\ pc = "raised" /\ error = "ShapeMismatch" /\ fn = "mag"
    /\ Len(props.my) # Len(prisms.x1)
    /\ FieldRecognized

\* The array a times the constants in units, with the sign given
Times(a, sign, units) ==
    [a EXCEPT !.sign = @ * sign,
              !.units = [c \in ConstantNames |-> @[c] + IF c \in units THEN 1 ELSE 0]]

GravUnits ==
    IF field = "potential" THEN {"GRAVITATIONAL_CONST"}
    ELSE IF field \in {"x", "y", "z"} THEN {"GRAVITATIONAL_CONST", "SI2MGAL"}
    ELSE {"GRAVITATIONAL_CONST", "SI2EOTVOS"}

MagUnits == IF field = "potential" THEN {"CM", "T2MT"} ELSE {"CM", "T2NT"}

\* C7 as stated: the scaled result is the unscaled one times G, G * SI2MGAL
\* or G * SI2EOTVOS for grav, and times CM * T2NT or CM * T2MT for mag.
C7_AsStated ==
    [][(pc = "assembled" /\ pc' = "returned") =>
           out' = IF scale = TRUE
                  THEN IF fn = "grav" THEN Times(out, 1, GravUnits)
                       ELSE Times(out, 1, MagUnits)
                  ELSE out]_vars

\* C7, amended: as stated, but the magnetic potential is multiplied by
\* -CM * T2MT: mag changes its sign.
C7_Scaling ==
    [][(pc = "assembled" /\ pc' = "returned") =>
           out' = IF scale = TRUE
                  THEN IF fn = "grav" THEN Times(out, 1, GravUnits)
                       ELSE Times(out, IF field = "potential" THEN -1 ELSE 1,
                                  MagUnits)
                  ELSE out]_vars

C7_Witness ==
    /\ pc = "returned" /\ scale = TRUE /\ fn = "mag" /\ field = "potential"
    /\ out.sign = -1
    /\ out.units["CM"] = 1 /\ out.units["T2MT"] = 1
    /\ \A l \in DOMAIN out.data : out.data[l] # Zero

\* C8: a prism cut in two at a plane between two of its faces, along x, y or
\* z, gives in both engines the field of the undivided prism.
C8_Superposition == pc = "evaluated" => value.parts = value.whole

C8_Witness ==
    /\ pc = "evaluated"
    /\ probe.axis = "z"
    /\ probe.prism.z1 < probe.mid /\ probe.mid < probe.prism.z2
    /\ value.whole.direct # Zero
    /\ value.parts.batched = value.whole.batched

\* C9: every kernel of both modules returns a finite value at every relative
\* position, some of X, Y, Z being 0 included, and 0 at X = Y = Z = 0.
C9_NoSingularity ==
    pc = "evaluated" =>
        /\ IsFinite(value.numpy)
        /\ IsFinite(value.numba)
        /\ (probe.X = 0 /\ probe.Y = 0 /\ probe.Z = 0) =>
               (value.numpy = Zero /\ value.numba = Zero)

\* The point straight below a corner: Z + R = 0 in log(Z + R)
C9_Witness ==
    /\ pc = "evaluated"
    /\ probe.field = "xy"
    /\ probe.X = 0 /\ probe.Y = 0 /\ probe.Z < 0
    /\ value.numpy = Zero

\* C10: no step of a call changes the coordinates, the prisms or the source
\* properties, and the array the call writes and returns is its own.
C10_Frame ==
    [][/\ UNCHANGED <<coordinates, prisms, props>>
       /\ result' \in {"none", "out"}
       /\ out' # out => pc' \in {"allocated", "assembled", "returned"}]_vars

C10_Witness ==
    /\ pc = "returned" /\ scale = TRUE /\ module = "numba"
    /\ out.units # NoUnits


\* The loops of the function called, run as written on the geometry c, pr and
\* the source properties sg
Sequential(c, pr, sg) ==
    IF fn = "grav"
    THEN jit_grav(c, pr, sg.density, kernels, zeros(Size(c.x)))
    ELSE jit_mag(c, pr, sg.mx, sg.my, sg.mz, kernels.x, kernels.y, kernels.z,
                 zeros(Size(c.x)))

Reorderings(n) ==
    {f \in [1..n -> 1..n] : \A i, j \in 1..n : f[i] = f[j] => i = j}

\* The arrays of the record a, each reordered by f
Permuted(a, f) == [k \in DOMAIN a |-> [q \in DOMAIN f |-> a[k][f[q]]]]

\* The contribution of point l and prism p computed from them alone
PairAlone(l, p) ==
    BodyOn(Zero, OnePoint(PointAt(coordinates, l)),
           Prisms(<<PrismAt(prisms, p)>>),
           [k \in DOMAIN props |-> <<props[k][p]>>], 1, 1)

\* What the workers leave in out: the output of the loops run as written, also
\* with the prisms and their properties in any other order, each contribution
\* being that of its point and prism alone
MergedAsSequential ==
    /\ out.data = Sequential(coordinates, prisms, props)
    /\ \A f \in Reorderings(Size(prisms.x1)) :
          out.data = Sequential(coordinates, Permuted(prisms, f), Permuted(props, f))
    /\ \A lp \in Pairs : Body(Zero, lp[1], lp[2]) = PairAlone(lp[1], lp[2])

\* out[l] changes only when a worker ends out[l] += ... for point l
WrittenByItsPoint ==
    \A l \in DOMAIN out.data :
        out'.data[l] # out.data[l] =>
            \/ pc' = "merged"
            \/ \E w \in Workers :
                  /\ value.holding[w].busy /\ value.holding[w].l = l
                  /\ ~value'.holding[w].busy

\* C11: with the pairs (point, prism) done in any order by workers that each
\* own their points in out, or that add to arrays of their own merged at the
\* end, out ends as the point-then-prism loops leave it, and as they leave it
\* with the prisms and their properties permuted; each contribution is that of
\* its point, prism and property alone, and out[l] is written only for point l.
C11_AnyOrder ==
    /\ [](pc = "merged" => MergedAsSequential)
    /\ [][WrittenByItsPoint]_vars

\* Both workers added contributions of the same point to arrays of their own,
\* which were merged into out
C11_Witness ==
    /\ pc = "merged"
    /\ probe.discipline = "private"
    /\ \E l \in DOMAIN out.data : \A w \in Workers : value.private[w][l] # Zero
    /\ \A l \in DOMAIN out.data : out.data[l] # Zero


\* The n-th term visited when the points are taken in index order, for each
\* point the prisms in index order, for each prism the components in the order
\* x, y, z and for each component the 8 terms in the order written
IndexVisit(n) ==
    LET C == Len(Components)
        T == Len(TermOrder)
        m == n - 1
    IN  <<(m \div (T * C * P)) + 1, ((m \div (T * C)) % P) + 1,
          ((m \div T) % C) + 1, TermOrder[(m % T) + 1]>>

\* The n-th pass of the batched engine: per component, the vertices in order
VertexVisit(n) ==
    LET T == Len(VertexOrder)
        m == n - 1
    IN  <<(m \div T) + 1, VertexOrder[(m % T) + 1]>>

\* The number of visits of one run
Visits ==
    IF module = "numba" THEN D * P * Len(Components) * Len(TermOrder)
    ELSE Len(Components) * Len(VertexOrder)

\* What one call of the engine gives on the arguments of the call
EngineOutput ==
    CASE module = "numba" -> Sequential(coordinates, prisms, props)
      [] module = "numpy" /\ fn = "grav" ->
             iterate_over_vertices(coordinates, prisms, props.density, kernels)
      [] module = "numpy" /\ fn = "mag" ->
             AddArrays(AddArrays(
                 iterate_over_vertices(coordinates, prisms, props.mx, kernels.x),
                 iterate_over_vertices(coordinates, prisms, props.my, kernels.y)),
                 iterate_over_vertices(coordinates, prisms, props.mz, kernels.z))

\* C12: the loops visit the points in index order, for each point the prisms in
\* index order, for each prism the component sums x, y, z and in each the 8
\* terms in one fixed order (the batched engine: per component the 8 vertices
\* in one fixed order); a second run of grav or mag on the same inputs and
\* field makes the same visits in the same order and ends with the same output.
C12_Deterministic ==
    /\ Len(value.trace) <= Visits
    /\ \A n \in 1..Len(value.trace) :
          value.trace[n] = IF module = "numba" THEN IndexVisit(n) ELSE VertexVisit(n)
    /\ pc = "ran" =>
          /\ Len(value.trace) = Visits
          /\ out.data = EngineOutput
    /\ (pc = "ran" /\ value.run = 2) =>
          /\ out.data = value.first.data
          /\ value.trace = value.first.trace

\* The second run of mag in the module of the direct loops has ended, with
\* several points and several prisms
C12_Witness ==
    /\ pc = "ran" /\ value.run = 2
    /\ module = "numba" /\ fn = "mag"
    /\ D > 1 /\ P > 1
    /\ Len(value.first.trace) = D * P * 3 * 8
    /\ \A l \in 1..D : out.data[l] # Zero


====
